---- MODULE Spec2Model ----
(***************************************************************************)
(* Model of the pothole detection system (HasanNayon/geospatial-ai):       *)
(*   - the detection record store of database.py (two CSV files) and its   *)
(*     statistics,                                                         *)
(*   - the callers of the store in app.py,                                 *)
(*   - the streaming loop generate_frames of app.py,                       *)
(*   - the latest known location of app.py and the threads that set it,    *)
(*   - the route planner nearest_neighbor_path of utils.py.                *)
(*                                                                         *)
(* A CSV file is the sequence of its data rows; a row is a record of text  *)
(* cells (csv.writer writes str(value) of every value it is given).  A     *)
(* float is the integer number of its hundredths (23.8 is 2380).           *)
(***************************************************************************)
EXTENDS Integers, Sequences, FiniteSets, TLC

VARIABLES
    active,             \* data rows of detections.csv (DETECTIONS_CSV)
    archive,            \* data rows of repairs.csv (REPAIRS_CSV)
    now,                \* the wall clock, in seconds
    ret,                \* what the last completed store call returned
    issued,             \* history: the ids returned by add_detection, in order
    pc,                 \* per thread: where it stands inside a store call
    loc,                \* per thread: the local variables of its store call
    faults,             \* history: the writes of detections.csv that failed
    frame_count,        \* per stream: generate_frames' frame_count
    last_capture_time,  \* app.py global last_capture_time
    spc,                \* per stream: where generate_frames stands
    boxes,              \* per stream: the boxes of the frame still to process
    alerts,             \* the detection_alert events emitted, in order
    detected,           \* history: the times of the detections that reached
                        \* the cooldown check, in order
    latest_location,    \* app.py global latest_location
    current_time,       \* per stream: generate_frames' current_time
    frames,             \* history, per stream: for every frame read, whether
                        \* the detector was invoked on it
    refresh_at,         \* when the wait of update_location_periodically ends
    points,             \* nearest_neighbor_path: the argument points
    start_idx,          \* nearest_neighbor_path: the argument start_idx
    route,              \* what nearest_neighbor_path returned or raised
    lpc,                \* per writer of latest_location: the fields it has
                        \* assigned of the update it is making
    stream_lat          \* per stream: generate_frames' lat (line 212)

vars == <<active, archive, now, ret, issued, pc, loc, faults, frame_count,
          last_capture_time, spc, boxes, alerts, detected, latest_location,
          current_time, frames, refresh_at, points, start_idx, route, lpc,
          stream_lat>>

storeVars  == <<active, archive, now, ret, issued>>
threadVars == <<pc, loc, faults>>
streamVars == <<frame_count, last_capture_time, spc, boxes, alerts, detected,
                latest_location, current_time, frames>>
planVars   == <<points, start_idx, route>>
accessVars == <<lpc, stream_lat>>

-----------------------------------------------------------------------------
(* Bounds of the model.                                                    *)

MaxAdds == 3        \* add_detection calls in one behaviour
MaxClock == 0       \* seconds that pass during a behaviour of the store
MaxSeedId == 10     \* largest id of a row already stored when SpecNextId starts
MaxFrames == 4      \* frames read by one stream
MaxTime == 8        \* seconds that pass during a behaviour of the stream
ClockStart == 100   \* the clock when the process starts, in seconds
MaxFaults == 1      \* failed writes of detections.csv in one behaviour
MaxMoves == 2       \* move_to_repairs calls of the threads that find their record
MaxBoxes == 2       \* boxes the detector returns for one frame
MaxStreamFrames == 2    \* frames read by each of several concurrent streams
MaxPoints == 3      \* points given to nearest_neighbor_path
MaxStatRows == 3    \* rows of detections.csv when get_detection_stats is called
MaxWaits == 3       \* waits of update_location_periodically in one behaviour
MaxAccessWaits == 1 \* the same, when latest_location is followed key by key
MaxListRows == 3    \* rows of each file when it is listed

(* Program constants.                                                      *)

CAPTURE_COOLDOWN == 5
skip_frames == 2
REFRESH_PERIOD == 60    \* threading.Event().wait(60)
GPS_MAX_AGE == 120      \* ... .seconds > 120

-----------------------------------------------------------------------------
(* Python conversions.                                                     *)

ValueError == [ok |-> FALSE, val |-> 0]
Value(v) == [ok |-> TRUE, val |-> v]

\* Largest integer whose text the model can meet in an ID cell.
IdRange == MaxSeedId + MaxAdds + 2

\* int(text): the integer a decimal text denotes, ValueError for any other text.
IntTexts == [n \in 0..IdRange |-> ToString(n)]
PyInt(s) ==
    IF \E n \in 0..IdRange : IntTexts[n] = s
    THEN Value(CHOOSE n \in 0..IdRange : IntTexts[n] = s)
    ELSE ValueError

\* The floats of the model: <<repr(x), x in hundredths>>.
FloatTable == { <<"0.0", 0>>, <<"23.8", 2380>>, <<"90.4", 9040>>,
                <<"0.55", 55>>, <<"0.9", 90>>,
                <<"23.7", 2370>>, <<"90.3", 9030>>,
                <<"0.3", 30>>, <<"0.5", 50>>, <<"0.79", 79>>, <<"0.8", 80>> }

\* float(x): x is a text cell or the integer 0 that `cell or 0` puts in place of
\* an empty cell.  "0" is the text of the integer 0; "N/A" and every text that is
\* no number raise ValueError.
PyFloat(s) ==
    IF s = "0" THEN Value(0)
    ELSE IF \E p \in FloatTable : p[1] = s
         THEN Value((CHOOSE p \in FloatTable : p[1] = s)[2])
         ELSE ValueError

\* The None csv.DictReader gives for a cell its row is too short to hold.
Missing == "<None>"

\* `cell or 0` without the `or 0`.
OrZero_AsIs(s) ==
    s

\* `cell or 0`: an empty text and None are falsy.
OrZero(s) ==
    IF s \in {"", Missing} THEN "0" ELSE s

\* str(x) of a float x, as csv.writer writes it.
FloatStr(x) == (CHOOSE p \in FloatTable : p[2] = x)[1]

\* A text cell as the csv reader returns it from a file opened with
\* open(path, 'r'): universal newlines turn a carriage return inside a quoted
\* cell into a line feed.
ReadText(s) ==
    IF s = "cold mix<CR>2 bags" THEN "cold mix<LF>2 bags" ELSE s

\* strftime('%Y-%m-%d %H:%M:%S') of the clock value t.
TimeStr(t) == "1970-01-01 +" \o ToString(t) \o "s"

\* str.title() of a detection type.
Title(s) == IF s = "pothole" THEN "Pothole" ELSE IF s = "crack" THEN "Crack" ELSE s

-----------------------------------------------------------------------------
(* database.py                                                             *)

\* The rows of a freshly initialised file: the header only.
init_csv_files == << >>

\* One pass of the loop of get_next_detection_id over the rows of one file.
RECURSIVE ScanMaxId(_, _)
ScanMaxId(rows, max_id) ==
    IF rows = << >> THEN max_id
    ELSE LET id_val == PyInt(Head(rows).ID)
         IN  ScanMaxId(Tail(rows),
                       IF id_val.ok /\ id_val.val > max_id THEN id_val.val ELSE max_id)

\* A plausible slip: only detections.csv is scanned.
get_next_detection_id_ActiveOnly(det_rows, rep_rows) ==
    ScanMaxId(det_rows, 0) + 1

\* A plausible slip: the id is the number of active rows plus one.
get_next_detection_id_Count(det_rows, rep_rows) ==
    Len(det_rows) + 1

get_next_detection_id(det_rows, rep_rows) ==
    ScanMaxId(rep_rows, ScanMaxId(det_rows, 0)) + 1

\* The row add_detection writes.
DetectionRow(detection_id, t, a) ==
    [ID |-> ToString(detection_id), Timestamp |-> TimeStr(t),
     Image_Path |-> a.image_path, Latitude |-> a.latitude,
     Longitude |-> a.longitude, Detection_Type |-> a.detection_type,
     Confidence |-> a.confidence]

\* The dict get_all_detections builds from a row; ok is FALSE when a
\* conversion raises and the row is skipped.
ParseDetection(row) ==
    LET id  == PyInt(row.ID)
        lat == PyFloat(OrZero(row.Latitude))
        lng == PyFloat(OrZero(row.Longitude))
        cf  == PyFloat(OrZero(row.Confidence))
    IN  [ok |-> id.ok /\ lat.ok /\ lng.ok /\ cf.ok,
         d  |-> [id |-> id.val, timestamp |-> ReadText(row.Timestamp),
                 image_path |-> ReadText(row.Image_Path),
                 lat |-> lat.val, lng |-> lng.val,
                 type |-> ReadText(row.Detection_Type),
                 confidence |-> cf.val]]

RECURSIVE get_all_detections(_)
get_all_detections(rows) ==
    IF rows = << >> THEN << >>
    ELSE LET p == ParseDetection(Head(rows))
         IN  (IF p.ok THEN <<p.d>> ELSE << >>) \o get_all_detections(Tail(rows))

ParseRepair(row) ==
    LET p == ParseDetection(row)
    IN  [ok |-> p.ok,
         d  |-> [id |-> p.d.id, timestamp |-> p.d.timestamp,
                 image_path |-> p.d.image_path, lat |-> p.d.lat, lng |-> p.d.lng,
                 type |-> p.d.type, confidence |-> p.d.confidence,
                 repair_date |-> ReadText(row.Repair_Date),
                 technician |-> ReadText(row.Technician),
                 notes |-> ReadText(row.Notes)]]

RECURSIVE get_all_repairs(_)
get_all_repairs(rows) ==
    IF rows = << >> THEN << >>
    ELSE LET p == ParseRepair(Head(rows))
         IN  (IF p.ok THEN <<p.d>> ELSE << >>) \o get_all_repairs(Tail(rows))

\* next((d for d in detections if d['id'] == detection_id), None)
RECURSIVE FindDetection(_, _)
FindDetection(detections, detection_id) ==
    IF detections = << >> THEN [found |-> FALSE]
    ELSE IF Head(detections).id = detection_id
         THEN [found |-> TRUE, d |-> Head(detections)]
         ELSE FindDetection(Tail(detections), detection_id)

\* The row move_to_repairs appends to repairs.csv.
RepairRow(d, t, technician, notes) ==
    [ID |-> ToString(d.id), Timestamp |-> d.timestamp, Image_Path |-> d.image_path,
     Latitude |-> FloatStr(d.lat), Longitude |-> FloatStr(d.lng),
     Detection_Type |-> d.type, Confidence |-> FloatStr(d.confidence),
     Repair_Date |-> TimeStr(t), Technician |-> technician, Notes |-> notes]

\* A row of the rewritten detections.csv.
RewrittenRow(d) ==
    [ID |-> ToString(d.id), Timestamp |-> d.timestamp, Image_Path |-> d.image_path,
     Latitude |-> FloatStr(d.lat), Longitude |-> FloatStr(d.lng),
     Detection_Type |-> d.type, Confidence |-> FloatStr(d.confidence)]

\* remaining = [d for d in detections if d['id'] != detection_id], as rows.
RECURSIVE RemainingRows(_, _)
RemainingRows(detections, detection_id) ==
    IF detections = << >> THEN << >>
    ELSE (IF Head(detections).id # detection_id
          THEN <<RewrittenRow(Head(detections))>> ELSE << >>)
         \o RemainingRows(Tail(detections), detection_id)

SuccessMessage(d, detection_id) ==
    Title(d.type) \o " #" \o ToString(detection_id) \o " has been fixed!"

\* move_to_repairs when the early return comes after the rewrite of
\* detections.csv instead of before it.
move_to_repairs_LateReturn(det_rows, rep_rows, detection_id, t, technician, notes) ==
    LET detections == get_all_detections(det_rows)
        f == FindDetection(detections, detection_id)
    IN  IF ~f.found
        THEN [active |-> RemainingRows(detections, detection_id),
              archive |-> rep_rows, ok |-> FALSE, msg |-> "Detection not found"]
        ELSE [active  |-> RemainingRows(detections, detection_id),
              archive |-> Append(rep_rows, RepairRow(f.d, t, technician, notes)),
              ok |-> TRUE, msg |-> SuccessMessage(f.d, detection_id)]

\* move_to_repairs as one call: the two files after it and what it returns.
move_to_repairs(det_rows, rep_rows, detection_id, t, technician, notes) ==
    LET detections == get_all_detections(det_rows)
        f == FindDetection(detections, detection_id)
    IN  IF ~f.found
        THEN [active |-> det_rows, archive |-> rep_rows,
              ok |-> FALSE, msg |-> "Detection not found"]
        ELSE [active  |-> RemainingRows(detections, detection_id),
              archive |-> Append(rep_rows, RepairRow(f.d, t, technician, notes)),
              ok |-> TRUE, msg |-> SuccessMessage(f.d, detection_id)]

-----------------------------------------------------------------------------
(* app.py: the arguments its handlers pass to the store.                   *)

AddArgs(image_path, latitude, longitude, detection_type, confidence) ==
    [image_path |-> image_path, latitude |-> latitude, longitude |-> longitude,
     detection_type |-> detection_type, confidence |-> confidence]

\* `lat or 0` of generate_frames, as csv.writer writes it: None and 0.0 are
\* falsy and become the integer 0.
OrZeroStr(v) == IF v \in {"None", "0.0"} THEN "0" ELSE v

\* /predict: latitude and longitude are form fields, '0.0' when absent.
PredictArgs ==
    { AddArgs("static/uploads/road.jpg", l[1], l[2], "crack", "0.9") :
        l \in { <<"0.0", "0.0">> } }

\* /capture_detection: latitude and longitude are JSON fields, 'N/A' when absent.
CaptureArgs ==
    { AddArgs("static/dashcam_captures/shot.jpg", l[1], l[2], "pothole", "0.55") :
        l \in { <<"N/A", "N/A">> } }

\* generate_frames: the latest location, or 0 when there is none.
StreamArgs(location, conf) ==
    AddArgs("static/dashcam_captures/pothole.jpg",
            OrZeroStr(location.latitude), OrZeroStr(location.longitude),
            "pothole", conf)

NoLocation ==
    [latitude |-> "None", longitude |-> "None", source |-> "none", last_update |-> "None"]

\* latest_location after handle_location received a GPS fix.
GpsLocation ==
    [latitude |-> "23.8", longitude |-> "90.4", source |-> "gps", last_update |-> TimeStr(ClockStart)]

CallerArgs == PredictArgs \cup CaptureArgs \cup {StreamArgs(GpsLocation, "0.55")}

\* /api/update-fix: the fields of the request.
TechnicianArgs == {"Rahim"}
NotesArgs == {"cold mix<CR>2 bags"}

-----------------------------------------------------------------------------
(* database.py: get_detection_stats.  Of the dict it returns, the counts   *)
(* are modelled; avg_confidence, today_count and week_count are not.       *)

\* str.lower() of a detection type.
Lower(s) == IF s = "Pothole" THEN "pothole" ELSE IF s = "Crack" THEN "crack" ELSE s

\* Line 153: d['confidence'] >= 0.8
HighSeverity(confidence) == confidence >= 80
\* Line 154: 0.5 <= d['confidence'] < 0.8
MediumSeverity(confidence) == 50 <= confidence /\ confidence < 80

\* Line 155 with the bound of line 154: d['confidence'] < 0.8
LowSeverity_BelowHigh(confidence) ==
    confidence < 80

\* Line 155: d['confidence'] < 0.5
LowSeverity(confidence) ==
    confidence < 50

get_detection_stats(det_rows, rep_rows) ==
    LET detections == get_all_detections(det_rows)
        repairs == get_all_repairs(rep_rows)
        D == DOMAIN detections
        R == DOMAIN repairs
    IN  [total_detections |-> Len(detections),
         total_potholes |-> Cardinality({ i \in D : Lower(detections[i].type) = "pothole" }),
         total_cracks |-> Cardinality({ i \in D : Lower(detections[i].type) = "crack" }),
         fixed_count |-> Len(repairs),
         fixed_potholes |-> Cardinality({ i \in R : Lower(repairs[i].type) = "pothole" }),
         fixed_cracks |-> Cardinality({ i \in R : Lower(repairs[i].type) = "crack" }),
         high_severity |->
             Cardinality({ i \in D : HighSeverity(detections[i].confidence) }),
         medium_severity |->
             Cardinality({ i \in D : MediumSeverity(detections[i].confidence) }),
         low_severity |->
             Cardinality({ i \in D : LowSeverity(detections[i].confidence) })]

-----------------------------------------------------------------------------
(* The store, one call at a time.                                          *)

Threads == {1, 2}

NoRet == [op |-> "none", id |-> 0, arg |-> 0, ok |-> FALSE, msg |-> "",
          technician |-> "", notes |-> ""]
AddRet(id) == [NoRet EXCEPT !.op = "add", !.id = id, !.ok = TRUE]
PromoteRet(k, ok, msg, technician, notes) ==
    [NoRet EXCEPT !.op = "promote", !.arg = k, !.ok = ok, !.msg = msg,
                  !.technician = technician, !.notes = notes]

StoreInit ==
    /\ active = init_csv_files
    /\ archive = init_csv_files
    /\ now = ClockStart
    /\ ret = NoRet
    /\ issued = << >>

\* The local variables of a store call that has not started.
NoLocals ==
    [detection_id |-> 0, args |-> AddArgs("", "", "", "", ""), detections |-> << >>,
     detection |-> [found |-> FALSE], technician |-> "", notes |-> ""]

ThreadInit ==
    /\ pc = [t \in Threads |-> "idle"]
    /\ loc = [t \in Threads |-> NoLocals]
    /\ faults = 0

Streams == {1, 2}

\* No /video_feed request has been made.
FramesInit ==
    /\ frame_count = [s \in Streams |-> 0]
    /\ last_capture_time = 0
    /\ spc = [s \in Streams |-> "idle"]
    /\ boxes = [s \in Streams |-> << >>]
    /\ alerts = << >>
    /\ detected = << >>
    /\ current_time = [s \in Streams |-> 0]
    /\ frames = [s \in Streams |-> << >>]

StreamInit ==
    /\ FramesInit
    /\ latest_location = NoLocation

\* update_location_periodically begins with a wait of REFRESH_PERIOD.
LocationInit == refresh_at = ClockStart + REFRESH_PERIOD

\* The threads that assign latest_location: the handler of update_location
\* and update_location_periodically.
Writers == {"gps", "ip"}

\* No update of latest_location is in progress, no stream has read it.
AccessInit ==
    /\ lpc = [w \in Writers |-> 0]
    /\ stream_lat = [s \in Streams |-> "None"]

\* nearest_neighbor_path has not been called.
NotCalled == [op |-> "none"]
PlanInit ==
    /\ points = << >>
    /\ start_idx = 0
    /\ route = NotCalled

Init == StoreInit /\ ThreadInit /\ StreamInit /\ LocationInit /\ PlanInit /\ AccessInit

\* The values datetime.now() can return to a call made at clock value `now`.
ClockReads == { t \in {now, now + 1} : t <= ClockStart + MaxClock }

\* add_detection(image_path, latitude, longitude, detection_type, confidence)
Add(a) ==
    /\ Len(issued) < MaxAdds
    /\ \E t \in ClockReads :
        LET detection_id == get_next_detection_id(active, archive)
        IN  /\ active' = Append(active, DetectionRow(detection_id, t, a))
            /\ ret' = AddRet(detection_id)
            /\ issued' = Append(issued, detection_id)
            /\ now' = t
    /\ UNCHANGED <<archive, threadVars, streamVars, refresh_at, planVars, accessVars>>

\* /api/update-fix: move_to_repairs(detection_id, technician, notes)
Promote(k, technician, notes) ==
    /\ \E t \in ClockReads :
        LET r == move_to_repairs(active, archive, k, t, technician, notes)
        IN  /\ active' = r.active
            /\ archive' = r.archive
            /\ ret' = IF r.ok THEN PromoteRet(k, TRUE, r.msg, technician, notes)
                               ELSE PromoteRet(k, FALSE, r.msg, "", "")
            /\ now' = IF r.ok THEN t ELSE now
    /\ UNCHANGED <<issued, threadVars, streamVars, refresh_at, planVars, accessVars>>

PromoteIds == 1..MaxAdds

Next ==
    \/ \E a \in CallerArgs : Add(a)
    \/ \E k \in PromoteIds, technician \in TechnicianArgs, notes \in NotesArgs :
          Promote(k, technician, notes)

Spec == Init /\ [][Next]_vars

-----------------------------------------------------------------------------
(* The store, one file access at a time: a thread reads or writes one file *)
(* in a step, and other threads may run between two steps of a call.       *)

\* The arguments of the add_detection calls of the threads: those whose rows
\* get_all_detections parses, so that nothing shown of the threads rests on a
\* row it skips.
ThreadArgs == PredictArgs \cup {StreamArgs(GpsLocation, "0.55")}

\* add_detection calls begun: those returned and those between read and append.
AddsBegun == Len(issued) + Cardinality({ t \in Threads : pc[t] = "add_append" })

\* move_to_repairs calls that found their record: those that appended their
\* repair row and those about to.
MovesBegun == Len(archive) + Cardinality({ t \in Threads : pc[t] = "move_append" })

\* add_detection, line 40: detection_id = get_next_detection_id()
AddRead(t, a) ==
    /\ pc[t] = "idle"
    /\ AddsBegun < MaxAdds
    /\ loc' = [loc EXCEPT ![t] =
                 [NoLocals EXCEPT !.detection_id = get_next_detection_id(active, archive),
                                  !.args = a]]
    /\ pc' = [pc EXCEPT ![t] = "add_append"]
    /\ UNCHANGED <<storeVars, faults, streamVars, refresh_at, planVars, accessVars>>

\* add_detection, lines 41-47: the row is appended and the id returned.
AddAppend(t) ==
    /\ pc[t] = "add_append"
    /\ \E time \in ClockReads :
          /\ active' = Append(active, DetectionRow(loc[t].detection_id, time, loc[t].args))
          /\ now' = time
    /\ ret' = AddRet(loc[t].detection_id)
    /\ issued' = Append(issued, loc[t].detection_id)
    /\ pc' = [pc EXCEPT ![t] = "idle"]
    /\ loc' = [loc EXCEPT ![t] = NoLocals]
    /\ UNCHANGED <<archive, faults, streamVars, refresh_at, planVars, accessVars>>

\* move_to_repairs, lines 96-100: detections.csv is read and the id looked up.
MoveRead(t, k, technician, notes) ==
    /\ pc[t] = "idle"
    /\ MovesBegun < MaxMoves
    /\ LET detections == get_all_detections(active)
           f == FindDetection(detections, k)
       IN  IF ~f.found
           THEN /\ ret' = PromoteRet(k, FALSE, "Detection not found", "", "")
                /\ UNCHANGED <<pc, loc>>
           ELSE /\ loc' = [loc EXCEPT ![t] =
                             [NoLocals EXCEPT !.detection_id = k, !.detections = detections,
                                              !.detection = f, !.technician = technician,
                                              !.notes = notes]]
                /\ pc' = [pc EXCEPT ![t] = "move_append"]
                /\ UNCHANGED ret
    /\ UNCHANGED <<active, archive, now, issued, faults, streamVars, refresh_at, planVars, accessVars>>

\* move_to_repairs, lines 103-117: the repair row is appended to repairs.csv.
MoveAppend(t) ==
    /\ pc[t] = "move_append"
    /\ \E time \in ClockReads :
          /\ archive' = Append(archive, RepairRow(loc[t].detection.d, time,
                                                  loc[t].technician, loc[t].notes))
          /\ now' = time
    /\ pc' = [pc EXCEPT ![t] = "move_rewrite"]
    /\ UNCHANGED <<active, ret, issued, loc, faults, streamVars, refresh_at, planVars, accessVars>>

\* move_to_repairs, lines 120-127: detections.csv is rewritten from the rows
\* read at line 96, without the promoted one.
MoveRewrite(t) ==
    /\ pc[t] = "move_rewrite"
    /\ active' = RemainingRows(loc[t].detections, loc[t].detection_id)
    /\ ret' = PromoteRet(loc[t].detection_id, TRUE,
                         SuccessMessage(loc[t].detection.d, loc[t].detection_id),
                         loc[t].technician, loc[t].notes)
    /\ pc' = [pc EXCEPT ![t] = "idle"]
    /\ loc' = [loc EXCEPT ![t] = NoLocals]
    /\ UNCHANGED <<archive, now, issued, faults, streamVars, refresh_at, planVars, accessVars>>

\* move_to_repairs, line 121: open(DETECTIONS_CSV, 'w') raises OSError;
\* api_update_fix answers 500 with the error.
MoveRewriteFails(t) ==
    /\ pc[t] = "move_rewrite"
    /\ faults < MaxFaults
    /\ faults' = faults + 1
    /\ ret' = PromoteRet(loc[t].detection_id, FALSE, "OSError", "", "")
    /\ pc' = [pc EXCEPT ![t] = "idle"]
    /\ loc' = [loc EXCEPT ![t] = NoLocals]
    /\ UNCHANGED <<active, archive, now, issued, streamVars, refresh_at, planVars, accessVars>>

ThreadStep(t) ==
    \/ \E a \in ThreadArgs : AddRead(t, a)
    \/ AddAppend(t)
    \/ \E k \in PromoteIds, technician \in TechnicianArgs, notes \in NotesArgs :
          MoveRead(t, k, technician, notes)
    \/ MoveAppend(t)
    \/ MoveRewrite(t)
    \/ MoveRewriteFails(t)

\* One caller: the calls follow one another, each in its steps.
NextSteps == ThreadStep(1)

SpecSteps == Init /\ [][NextSteps]_vars

\* Request handlers and streams running as threads of one process.
NextConc == \E t \in Threads : ThreadStep(t)

SpecConc == Init /\ [][NextConc]_vars

-----------------------------------------------------------------------------
(* get_next_detection_id and add_detection on a store that already holds   *)
(* rows: detections.csv and repairs.csv outlive the process, and           *)
(* init_csv_files leaves existing files alone.                             *)

\* The sequences of at most two distinct ids out of 1..MaxSeedId.
SeedIds ==
    {<< >>} \cup { <<i>> : i \in 1..MaxSeedId }
            \cup { p \in (1..MaxSeedId) \X (1..MaxSeedId) : p[1] # p[2] }

SeedRow(id) == DetectionRow(id, ClockStart, StreamArgs(GpsLocation, "0.55"))
SeedRepairRow(id) ==
    RepairRow(ParseDetection(SeedRow(id)).d, ClockStart, "Rahim", "")

InitNextId ==
    /\ \E a \in SeedIds, r \in SeedIds :
          /\ \A i \in DOMAIN a, j \in DOMAIN r : a[i] # r[j]
          /\ active = [i \in DOMAIN a |-> SeedRow(a[i])]
          /\ archive = [i \in DOMAIN r |-> SeedRepairRow(r[i])]
    /\ now = ClockStart
    /\ ret = NoRet
    /\ issued = << >>
    /\ ThreadInit
    /\ StreamInit
    /\ LocationInit
    /\ AccessInit
    /\ PlanInit

\* One add_detection call on the stored rows.
AddOnce(a) == issued = << >> /\ Add(a)

NextNextId == \E a \in CallerArgs : AddOnce(a)

SpecNextId == InitNextId /\ [][NextNextId]_vars

-----------------------------------------------------------------------------
(* get_detection_stats on a store that holds rows of every confidence band. *)

StatTypes == {"pothole", "crack"}
StatConfs == {"0.3", "0.5", "0.79", "0.8", "0.9"}

\* The row add_detection wrote for a detection of the type and confidence.
StatRow(id, type, conf) ==
    DetectionRow(id, ClockStart,
                 AddArgs("static/uploads/road.jpg", "23.8", "90.4", type, conf))

InitStats ==
    /\ \E n \in 0..MaxStatRows :
          \E types \in [1..n -> StatTypes], confs \in [1..n -> StatConfs] :
              active = [i \in 1..n |-> StatRow(i, types[i], confs[i])]
    /\ archive \in { << >>, <<SeedRepairRow(MaxSeedId)>> }
    /\ now = ClockStart
    /\ ret = NoRet
    /\ issued = << >>
    /\ ThreadInit
    /\ StreamInit
    /\ LocationInit
    /\ AccessInit
    /\ PlanInit

StatsRet(stats) == [op |-> "stats", stats |-> stats]

\* /api/stats and the dashboard: get_detection_stats()
Stats ==
    /\ ret = NoRet
    /\ ret' = StatsRet(get_detection_stats(active, archive))
    /\ UNCHANGED <<active, archive, now, issued, threadVars, streamVars, refresh_at,
                   planVars, accessVars>>

NextStats == Stats

SpecStats == InitStats /\ [][NextStats]_vars

-----------------------------------------------------------------------------
(* get_all_detections and get_all_repairs on files that hold rows of every *)
(* kind: well-formed, with a cell that int() or float() rejects, with      *)
(* blank cells, and too short for the header.                              *)

ListKinds == {"good", "bad_id", "bad_lat", "bad_conf", "blank", "short"}

\* Row i of detections.csv, of the kind.
ListRow(i, kind) ==
    LET good == DetectionRow(i, ClockStart,
                    AddArgs("static/uploads/road.jpg", "23.8", "90.4", "crack", "0.9"))
    IN  CASE kind = "bad_id"   -> [good EXCEPT !.ID = "x"]
          [] kind = "bad_lat"  -> [good EXCEPT !.Latitude = "N/A", !.Longitude = "N/A"]
          [] kind = "bad_conf" -> [good EXCEPT !.Confidence = "abc"]
          [] kind = "blank"    -> [good EXCEPT !.Latitude = "", !.Longitude = "",
                                               !.Confidence = ""]
          [] kind = "short"    -> [good EXCEPT !.Longitude = Missing,
                                               !.Detection_Type = Missing,
                                               !.Confidence = Missing]
          [] OTHER             -> good

\* Row i of repairs.csv, of the kind.
ListRepairRow(i, kind) ==
    LET r == ListRow(i, kind)
        rest == IF kind = "short" THEN Missing ELSE "Rahim"
    IN  [ID |-> r.ID, Timestamp |-> r.Timestamp, Image_Path |-> r.Image_Path,
         Latitude |-> r.Latitude, Longitude |-> r.Longitude,
         Detection_Type |-> r.Detection_Type, Confidence |-> r.Confidence,
         Repair_Date |-> IF kind = "short" THEN Missing ELSE TimeStr(ClockStart),
         Technician |-> rest, Notes |-> rest]

InitList ==
    /\ \E n \in 0..MaxListRows, m \in 0..MaxListRows :
          \E kinds \in [1..(IF n > m THEN n ELSE m) -> ListKinds] :
              /\ active = [i \in 1..n |-> ListRow(i, kinds[i])]
              /\ archive = [i \in 1..m |-> ListRepairRow(i, kinds[i])]
    /\ now = ClockStart
    /\ ret = NoRet
    /\ issued = << >>
    /\ ThreadInit
    /\ StreamInit
    /\ LocationInit
    /\ AccessInit
    /\ PlanInit

ListRet(op, listing) == [op |-> op, listing |-> listing]

\* /api/detections: get_all_detections()
ListDetections ==
    /\ ret = NoRet
    /\ ret' = ListRet("get_all_detections", get_all_detections(active))
    /\ UNCHANGED <<active, archive, now, issued, threadVars, streamVars, refresh_at,
                   planVars, accessVars>>

\* /api/repairs: get_all_repairs()
ListRepairs ==
    /\ ret = NoRet
    /\ ret' = ListRet("get_all_repairs", get_all_repairs(archive))
    /\ UNCHANGED <<active, archive, now, issued, threadVars, streamVars, refresh_at,
                   planVars, accessVars>>

NextList == ListDetections \/ ListRepairs

SpecList == InitList /\ [][NextList]_vars

-----------------------------------------------------------------------------
(* app.py: generate_frames, the streaming loop of one /video_feed request. *)

classNames == <<"pothole">>

\* What the detector returns for a frame: boxes with a confidence, already
\* rounded up to hundredths (line 194), and a class index.
Boxes == { [conf |-> "0.55", cls |-> c] : c \in 0..1 }
BoxSeqs ==
    UNION { [1..n -> Boxes] : n \in 0..MaxBoxes }

\* Line 205, >= in place of >.
CooldownElapsed_AtLeast(time, last) ==
    time - last >= CAPTURE_COOLDOWN

\* Line 205: current_time - last_capture_time > CAPTURE_COOLDOWN
CooldownElapsed(time, last) ==
    time - last > CAPTURE_COOLDOWN

\* Line 222: the location of the alert.
AlertLocation(location) ==
    IF location.latitude \notin {"None", "0.0"} /\ location.longitude \notin {"None", "0.0"}
    THEN location.latitude \o ", " \o location.longitude
    ELSE "Unknown"

\* The clock ticks.
Tick ==
    /\ now < ClockStart + MaxTime
    /\ now' = now + 1
    /\ UNCHANGED <<active, archive, ret, issued, threadVars, streamVars, refresh_at, planVars, accessVars>>

\* Line 182, with a skip interval of 3.
ShouldInfer_EveryThird(count) ==
    count % 3 = 0

\* Line 182: frame_count % skip_frames == 0
ShouldInfer(count) ==
    count % skip_frames = 0

\* /video_feed: generate_frames starts (lines 162-173).
StartStream(s) ==
    /\ spc[s] = "idle"
    /\ spc' = [spc EXCEPT ![s] = "reading"]
    /\ frame_count' = [frame_count EXCEPT ![s] = 0]
    /\ UNCHANGED <<storeVars, threadVars, last_capture_time, boxes, alerts, detected,
                   latest_location, current_time, frames, refresh_at, planVars, accessVars>>

\* Lines 176-186: a frame is read and counted, and the detector runs on it
\* when the count is a multiple of skip_frames.
ReadFrame(s) ==
    /\ spc[s] = "reading"
    /\ frame_count[s] < MaxFrames
    /\ frame_count' = [frame_count EXCEPT ![s] = @ + 1]
    /\ frames' = [frames EXCEPT ![s] = Append(@, ShouldInfer(frame_count'[s]))]
    /\ \E results \in BoxSeqs :
          /\ ~ShouldInfer(frame_count'[s]) => results = << >>
          /\ boxes' = [boxes EXCEPT ![s] = results]
    /\ spc' = [spc EXCEPT ![s] = "boxes"]
    /\ UNCHANGED <<storeVars, threadVars, last_capture_time, alerts, detected,
                   latest_location, current_time, refresh_at, planVars, accessVars>>

\* Lines 176-178: camera.read() fails and the loop ends.
ReadFails(s) ==
    /\ spc[s] = "reading"
    /\ spc' = [spc EXCEPT ![s] = "done"]
    /\ UNCHANGED <<storeVars, threadVars, frame_count, last_capture_time, boxes, alerts,
                   detected, latest_location, current_time, frames, refresh_at, planVars, accessVars>>

\* Lines 183-188: the detector raises on the frame; nothing catches it.
DetectorRaises(s) ==
    /\ spc[s] = "reading"
    /\ frame_count[s] < MaxFrames
    /\ ShouldInfer(frame_count[s] + 1)
    /\ frame_count' = [frame_count EXCEPT ![s] = @ + 1]
    /\ frames' = [frames EXCEPT ![s] = Append(@, TRUE)]
    /\ spc' = [spc EXCEPT ![s] = "crashed"]
    /\ UNCHANGED <<storeVars, threadVars, last_capture_time, boxes, alerts, detected,
                   latest_location, current_time, refresh_at, planVars, accessVars>>

\* Lines 190-223 for one box: the label is looked up, and the detection is
\* captured when the cooldown has elapsed.  The clock reads of one capture
\* (lines 204 and 207, and line 41 of database.py) fall in the same second.
ProcessBox(s) ==
    /\ spc[s] = "boxes"
    /\ boxes[s] # << >>
    /\ LET box == Head(boxes[s])
       IN  IF box.cls + 1 > Len(classNames)
           THEN \* classNames[cls] raises IndexError
                /\ spc' = [spc EXCEPT ![s] = "crashed"]
                /\ UNCHANGED <<storeVars, last_capture_time, boxes, alerts, detected,
                               current_time>>
           ELSE /\ current_time' = [current_time EXCEPT ![s] = now]
                /\ detected' = Append(detected, current_time'[s])
                /\ boxes' = [boxes EXCEPT ![s] = Tail(@)]
                /\ UNCHANGED <<spc, archive, now>>
                /\ IF CooldownElapsed(current_time'[s], last_capture_time)
                   THEN LET detection_id == get_next_detection_id(active, archive)
                            a == StreamArgs(latest_location, box.conf)
                        IN  /\ last_capture_time' = current_time'[s]
                            /\ active' = Append(active, DetectionRow(detection_id, now, a))
                            /\ ret' = AddRet(detection_id)
                            /\ issued' = Append(issued, detection_id)
                            /\ alerts' = Append(alerts,
                                  [id |-> detection_id, time |-> current_time'[s],
                                   confidence |-> box.conf,
                                   type |-> classNames[box.cls + 1],
                                   location |-> AlertLocation(latest_location)])
                   ELSE UNCHANGED <<last_capture_time, active, ret, issued, alerts>>
    /\ UNCHANGED <<threadVars, frame_count, latest_location, frames, refresh_at, planVars, accessVars>>

\* Lines 225-230: the annotated frame is yielded and the loop goes on.
YieldFrame(s) ==
    /\ spc[s] = "boxes"
    /\ boxes[s] = << >>
    /\ spc' = [spc EXCEPT ![s] = "reading"]
    /\ UNCHANGED <<storeVars, threadVars, frame_count, last_capture_time, boxes, alerts,
                   detected, latest_location, current_time, frames, refresh_at, planVars, accessVars>>

StreamStep(s) ==
    \/ StartStream(s)
    \/ ReadFrame(s)
    \/ ReadFails(s)
    \/ DetectorRaises(s)
    \/ ProcessBox(s)
    \/ YieldFrame(s)

\* One streaming context.
NextStream == Tick \/ StreamStep(1)

SpecStream == Init /\ [][NextStream]_vars

-----------------------------------------------------------------------------
(* Several /video_feed requests at once: every request runs its own        *)
(* generate_frames in a thread of the server, and all of them share the    *)
(* global last_capture_time.  Lines 204-205 read the global and line 206   *)
(* writes it; no lock is held, so other streams may run in between.        *)

\* Lines 190-205 for one box: the label is looked up, the clock is read and
\* the cooldown is tested against the global.
CheckCooldown(s) ==
    /\ spc[s] = "boxes"
    /\ boxes[s] # << >>
    /\ LET box == Head(boxes[s])
       IN  IF box.cls + 1 > Len(classNames)
           THEN \* classNames[cls] raises IndexError
                /\ spc' = [spc EXCEPT ![s] = "crashed"]
                /\ UNCHANGED <<boxes, detected, current_time>>
           ELSE /\ current_time' = [current_time EXCEPT ![s] = now]
                /\ detected' = Append(detected, current_time'[s])
                /\ IF CooldownElapsed(current_time'[s], last_capture_time)
                   THEN /\ spc' = [spc EXCEPT ![s] = "capture"]
                        /\ UNCHANGED boxes
                   ELSE /\ boxes' = [boxes EXCEPT ![s] = Tail(@)]
                        /\ UNCHANGED spc
    /\ UNCHANGED <<storeVars, threadVars, frame_count, last_capture_time, alerts,
                   latest_location, frames, refresh_at, planVars, accessVars>>

\* Lines 206-223: the global is set to the time read at line 204, the record
\* is added to the store and the alert emitted.
Capture(s) ==
    /\ spc[s] = "capture"
    /\ LET box == Head(boxes[s])
           detection_id == get_next_detection_id(active, archive)
           a == StreamArgs(latest_location, box.conf)
       IN  /\ last_capture_time' = current_time[s]
           /\ active' = Append(active, DetectionRow(detection_id, now, a))
           /\ ret' = AddRet(detection_id)
           /\ issued' = Append(issued, detection_id)
           /\ alerts' = Append(alerts,
                 [id |-> detection_id, time |-> current_time[s],
                  confidence |-> box.conf,
                  type |-> classNames[box.cls + 1],
                  location |-> AlertLocation(latest_location)])
    /\ boxes' = [boxes EXCEPT ![s] = Tail(@)]
    /\ spc' = [spc EXCEPT ![s] = "boxes"]
    /\ UNCHANGED <<archive, now, threadVars, frame_count, detected, latest_location,
                   current_time, frames, refresh_at, planVars, accessVars>>

ConcStreamStep(s) ==
    \/ StartStream(s)
    \/ frame_count[s] < MaxStreamFrames /\ ReadFrame(s)
    \/ ReadFails(s)
    \/ frame_count[s] < MaxStreamFrames /\ DetectorRaises(s)
    \/ CheckCooldown(s)
    \/ Capture(s)
    \/ YieldFrame(s)

NextStreams == Tick \/ \E s \in Streams : ConcStreamStep(s)

SpecStreams == Init /\ [][NextStreams]_vars

-----------------------------------------------------------------------------
(* app.py: the latest known location.  handle_location stores every GPS    *)
(* fix a client sends; update_location_periodically, a thread of its own,  *)
(* wakes every REFRESH_PERIOD seconds and asks the IP geolocation services *)
(* when the location is no GPS fix or the fix is older than GPS_MAX_AGE.   *)
(* generate_frames reads latest_location when it captures.                 *)

\* datetime.now() as latest_location keeps it, and the clock value it holds.
ClockRange == ClockStart..(ClockStart + MaxWaits * REFRESH_PERIOD)
TimeOf(s) == CHOOSE t \in ClockRange : TimeStr(t) = s

\* timedelta.seconds of a difference of clock values that is not negative.
Seconds(delta) == delta % 86400

\* latest_location after handle_location stored a GPS fix at time t.
GpsLocationAt(t) == [GpsLocation EXCEPT !.last_update = TimeStr(t)]

\* latest_location after get_automatic_location returned a location at time t.
IpLocationAt(t) ==
    [latitude |-> "23.7", longitude |-> "90.3", source |-> "ip", last_update |-> TimeStr(t)]

\* Lines 283-294: initialize_location, run before the server starts; result
\* is whether get_automatic_location returned a location.
initialize_location(result) ==
    IF result THEN IpLocationAt(ClockStart) ELSE NoLocation

InitLocation ==
    /\ StoreInit
    /\ ThreadInit
    /\ FramesInit
    /\ \E result \in BOOLEAN : latest_location = initialize_location(result)
    /\ LocationInit
    /\ AccessInit
    /\ PlanInit

\* Lines 309-316: handle_location, a GPS fix arrives.
handle_location ==
    /\ latest_location' = GpsLocationAt(now)
    /\ UNCHANGED <<storeVars, threadVars, frame_count, last_capture_time, spc, boxes,
                   alerts, detected, current_time, frames, refresh_at, planVars, accessVars>>

\* Lines 299-301: the test of update_location_periodically.
NeedsRefresh(location, t) ==
    \/ location.source # "gps"
    \/ /\ location.last_update # "None"
       /\ Seconds(t - TimeOf(location.last_update)) > GPS_MAX_AGE

\* Lines 298-307: the wait of update_location_periodically ends; result is
\* whether get_automatic_location returns a location.
update_location_periodically(result) ==
    /\ now = refresh_at
    /\ refresh_at' = now + REFRESH_PERIOD
    /\ latest_location' = IF NeedsRefresh(latest_location, now) /\ result
                          THEN IpLocationAt(now)
                          ELSE latest_location
    /\ UNCHANGED <<storeVars, threadVars, frame_count, last_capture_time, spc, boxes,
                   alerts, detected, current_time, frames, planVars, accessVars>>

\* Half a REFRESH_PERIOD passes; the refresh thread wakes when its wait ends.
Advance ==
    /\ now + REFRESH_PERIOD \div 2 <= refresh_at
    /\ now + REFRESH_PERIOD \div 2 <= ClockStart + MaxWaits * REFRESH_PERIOD
    /\ now' = now + REFRESH_PERIOD \div 2
    /\ UNCHANGED <<active, archive, ret, issued, threadVars, streamVars, refresh_at,
                   planVars, accessVars>>

NextLocation ==
    \/ Advance
    \/ handle_location
    \/ \E result \in BOOLEAN : update_location_periodically(result)
    \/ StreamStep(1)

SpecLocation == InitLocation /\ [][NextLocation]_vars

-----------------------------------------------------------------------------
(* latest_location, one access at a time.  handle_location runs in a       *)
(* thread of the server, update_location_periodically in a thread of its   *)
(* own and generate_frames in the thread of its request.  Each assigns or  *)
(* reads one key of the dict per statement, and no lock is held: the other *)
(* threads may run between two statements.                                 *)

\* The keys in the order both writers assign them.
LocationKeys == <<"latitude", "longitude", "source", "last_update">>

\* The dict after the next key was assigned from the update `update`, of
\* which `done` keys were assigned before.
AssignNext(location, update, done) ==
    [location EXCEPT ![LocationKeys[done + 1]] = update[LocationKeys[done + 1]]]

\* Lines 312-315, one assignment: handle_location stores the next key of the
\* GPS fix it received.
HandleLocationWrite ==
    /\ latest_location' = AssignNext(latest_location, GpsLocationAt(now), lpc["gps"])
    /\ lpc' = [lpc EXCEPT !["gps"] = (@ + 1) % Len(LocationKeys)]
    /\ UNCHANGED <<storeVars, threadVars, frame_count, last_capture_time, spc, boxes,
                   alerts, detected, current_time, frames, refresh_at, planVars,
                   stream_lat>>

\* Lines 298-304: the wait of update_location_periodically ends; when the
\* test passes and get_automatic_location returns a location (result), the
\* first key is assigned, else the next wait begins.
RefreshWake(result) ==
    /\ lpc["ip"] = 0
    /\ now = refresh_at
    /\ IF NeedsRefresh(latest_location, now) /\ result
       THEN /\ latest_location' = AssignNext(latest_location, IpLocationAt(now), 0)
            /\ lpc' = [lpc EXCEPT !["ip"] = 1]
            /\ UNCHANGED refresh_at
       ELSE /\ refresh_at' = now + REFRESH_PERIOD
            /\ UNCHANGED <<latest_location, lpc>>
    /\ UNCHANGED <<storeVars, threadVars, frame_count, last_capture_time, spc, boxes,
                   alerts, detected, current_time, frames, planVars, stream_lat>>

\* Lines 305-307, one assignment; after the last the next wait begins.
RefreshWrite ==
    /\ lpc["ip"] # 0
    /\ latest_location' = AssignNext(latest_location, IpLocationAt(now), lpc["ip"])
    /\ lpc' = [lpc EXCEPT !["ip"] = (@ + 1) % Len(LocationKeys)]
    /\ refresh_at' = IF lpc'["ip"] = 0 THEN now + REFRESH_PERIOD ELSE refresh_at
    /\ UNCHANGED <<storeVars, threadVars, frame_count, last_capture_time, spc, boxes,
                   alerts, detected, current_time, frames, planVars, stream_lat>>

\* Lines 206-212: the cooldown passed; last_capture_time is set and
\* lat = latest_location.get('latitude', 0) is read.
CaptureReadLat(s) ==
    /\ spc[s] = "capture"
    /\ last_capture_time' = current_time[s]
    /\ stream_lat' = [stream_lat EXCEPT ![s] = latest_location.latitude]
    /\ spc' = [spc EXCEPT ![s] = "capture_lng"]
    /\ UNCHANGED <<storeVars, threadVars, frame_count, boxes, alerts, detected,
                   latest_location, current_time, frames, refresh_at, planVars, lpc>>

\* Lines 213-223: lng = latest_location.get('longitude', 0) is read, the
\* record is added to the store and the alert emitted.
CaptureStore(s) ==
    /\ spc[s] = "capture_lng"
    /\ LET box == Head(boxes[s])
           detection_id == get_next_detection_id(active, archive)
           location == [latitude |-> stream_lat[s],
                        longitude |-> latest_location.longitude]
           a == StreamArgs(location, box.conf)
       IN  /\ active' = Append(active, DetectionRow(detection_id, now, a))
           /\ ret' = AddRet(detection_id)
           /\ issued' = Append(issued, detection_id)
           /\ alerts' = Append(alerts,
                 [id |-> detection_id, time |-> current_time[s],
                  confidence |-> box.conf,
                  type |-> classNames[box.cls + 1],
                  location |-> AlertLocation(location)])
    /\ boxes' = [boxes EXCEPT ![s] = Tail(@)]
    /\ spc' = [spc EXCEPT ![s] = "boxes"]
    /\ UNCHANGED <<archive, now, threadVars, frame_count, last_capture_time, detected,
                   latest_location, current_time, frames, refresh_at, planVars,
                   accessVars>>

\* generate_frames of one request, its reads of latest_location apart.
ReadingStreamStep(s) ==
    \/ StartStream(s)
    \/ frame_count[s] < MaxStreamFrames /\ ReadFrame(s)
    \/ ReadFails(s)
    \/ frame_count[s] < MaxStreamFrames /\ DetectorRaises(s)
    \/ CheckCooldown(s)
    \/ CaptureReadLat(s)
    \/ CaptureStore(s)
    \/ YieldFrame(s)

NextAccess ==
    \/ now < ClockStart + MaxAccessWaits * REFRESH_PERIOD /\ Advance
    \/ HandleLocationWrite
    \/ \E result \in BOOLEAN : RefreshWake(result)
    \/ RefreshWrite
    \/ ReadingStreamStep(1)

SpecAccess == InitLocation /\ [][NextAccess]_vars

-----------------------------------------------------------------------------
(* utils.py: calculate_distance and nearest_neighbor_path.                 *)
(*                                                                         *)
(* A point is a dict with 'lat' and 'lng', in whole degrees here.  A       *)
(* distance is the float calculate_distance returns, given as its whole    *)
(* number of metres: on the coordinates of the model two distances are     *)
(* the same float exactly when they are the same number of metres, and     *)
(* they compare as their numbers of metres do (computed with utils.py).    *)

Lats == {0, 1}
Lngs == {0, 1, 2}
Points == { [lat |-> la, lng |-> lo] : la \in Lats, lo \in Lngs }

\* calculate_distance(lat1, lon1, lat2, lon2): the haversine formula with
\* R = 6371 km, tabulated by the latitudes and the difference in longitude.
calculate_distance(lat1, lon1, lat2, lon2) ==
    LET dlon == IF lon2 >= lon1 THEN lon2 - lon1 ELSE lon1 - lon2
    IN  CASE lat1 = 0 /\ lat2 = 0 -> <<0, 111195, 222390>>[dlon + 1]
          [] lat1 = 1 /\ lat2 = 1 -> <<0, 111178, 222356>>[dlon + 1]
          [] OTHER                -> <<111195, 157249, 248629>>[dlon + 1]

\* seq[i] of a python list: i counts from 0, a negative i from the end.
PyIndex(n, i) == IF i < 0 THEN n + i ELSE i
PyItem(seq, i) == seq[PyIndex(Len(seq), i) + 1]

\* IndexError: list (assignment) index out of range.
IndexError == [op |-> "plan", ok |-> FALSE, error |-> "IndexError"]
\* return path, total_distance
PathRet(path, total_distance) ==
    [op |-> "plan", ok |-> TRUE, path |-> path, total_distance |-> total_distance]

\* nearest = None, nearest = j
None == [some |-> FALSE, val |-> 0]
Some(j) == [some |-> TRUE, val |-> j]
\* min_dist = float('inf'), min_dist = dist
Infinity == [inf |-> TRUE, val |-> 0]
Finite(dist) == [inf |-> FALSE, val |-> dist]

\* Line 39, <= in place of <.
CloserThan_OrEqual(dist, min_dist) ==
    min_dist.inf \/ dist <= min_dist.val

\* Line 39: dist < min_dist
CloserThan(dist, min_dist) ==
    min_dist.inf \/ dist < min_dist.val

\* Lines 25 and 44 left out: the point is not marked.
MarkVisited_Forget(visited, i) ==
    visited

\* Lines 25 and 44: visited[i] = True
MarkVisited(visited, i) ==
    [visited EXCEPT ![PyIndex(Len(visited), i) + 1] = TRUE]

\* Lines 33-41: for j in range(n), from j on.
RECURSIVE ScanNearest(_, _, _, _, _, _)
ScanNearest(pts, visited, current, j, nearest, min_dist) ==
    IF j >= Len(pts) THEN [nearest |-> nearest, min_dist |-> min_dist]
    ELSE IF ~visited[j + 1]
         THEN LET dist == calculate_distance(PyItem(pts, current).lat,
                                             PyItem(pts, current).lng,
                                             PyItem(pts, j).lat, PyItem(pts, j).lng)
              IN  IF CloserThan(dist, min_dist)
                  THEN ScanNearest(pts, visited, current, j + 1, Some(j), Finite(dist))
                  ELSE ScanNearest(pts, visited, current, j + 1, nearest, min_dist)
         ELSE ScanNearest(pts, visited, current, j + 1, nearest, min_dist)

\* Lines 29-49: for _ in range(n - 1), with `rounds` rounds left.
RECURSIVE VisitLoop(_, _, _, _, _, _)
VisitLoop(pts, visited, path, total_distance, current, rounds) ==
    IF rounds <= 0 THEN PathRet(path, total_distance)
    ELSE LET r == ScanNearest(pts, visited, current, 0, None, Infinity)
         IN  IF r.nearest.some
             THEN VisitLoop(pts, MarkVisited(visited, r.nearest.val),
                            Append(path, r.nearest.val),
                            total_distance + r.min_dist.val, r.nearest.val, rounds - 1)
             ELSE VisitLoop(pts, visited, path, total_distance, current, rounds - 1)

\* A plausible slip: the leg back to the start is added to the total.
nearest_neighbor_path_RoundTrip(pts, start) ==
    IF pts = << >> THEN PathRet(<< >>, 0)
    ELSE LET n == Len(pts)
         IN  IF start >= n \/ start < 0 - n
             THEN IndexError
             ELSE LET r == VisitLoop(pts, MarkVisited([j \in 1..n |-> FALSE], start),
                                     <<start>>, 0, start, n - 1)
                      last == r.path[Len(r.path)]
                  IN  PathRet(r.path,
                              r.total_distance
                                + calculate_distance(PyItem(pts, last).lat,
                                                     PyItem(pts, last).lng,
                                                     PyItem(pts, start).lat,
                                                     PyItem(pts, start).lng))

\* nearest_neighbor_path(points, start_idx=0)
nearest_neighbor_path(pts, start) ==
    IF pts = << >> THEN PathRet(<< >>, 0)
    ELSE LET n == Len(pts)
         IN  IF start >= n \/ start < 0 - n
             THEN \* visited[start_idx] = True raises
                  IndexError
             ELSE VisitLoop(pts, MarkVisited([j \in 1..n |-> FALSE], start),
                            <<start>>, 0, start, n - 1)

\* The arguments of a call.
PointSeqs == UNION { [1..n -> Points] : n \in 0..MaxPoints }
StartIdxs == (0 - MaxPoints - 1)..MaxPoints

InitPlan ==
    /\ StoreInit
    /\ ThreadInit
    /\ StreamInit
    /\ LocationInit
    /\ AccessInit
    /\ points \in PointSeqs
    /\ start_idx \in StartIdxs
    /\ route = NotCalled

\* path, total_distance = nearest_neighbor_path(points, start_idx)
Plan ==
    /\ route = NotCalled
    /\ route' = nearest_neighbor_path(points, start_idx)
    /\ UNCHANGED <<storeVars, threadVars, streamVars, refresh_at, points, start_idx,
                   accessVars>>

NextPlan == Plan

SpecPlan == InitPlan /\ [][NextPlan]_vars

-----------------------------------------------------------------------------
(* What the claims speak of.                                               *)

\* listActive and listArchived of the current store.
ListActive == get_all_detections(active)
ListArchived == get_all_repairs(archive)

\* The ids of the rows stored in a file, row by row.
RowIds(rows) == [i \in DOMAIN rows |-> PyInt(rows[i].ID).val]

\* The records of a listing that carry id k.
WithId(listing, k) == { i \in DOMAIN listing : listing[i].id = k }

\* C1: in every state reached by add and promote calls made one at a time from
\* an empty store, no two rows stored in detections.csv and repairs.csv
\* together carry the same id.
C1_UniqueIds ==
    LET all == RowIds(active) \o RowIds(archive)
    IN  \A i, j \in DOMAIN all : i # j => all[i] # all[j]

\* C1 witness: an add has returned after a promotion, with several records stored.
C1_Witness ==
    /\ ret.op = "add"
    /\ Len(active) >= 2
    /\ Len(archive) >= 1

\* C3 as claimed: once add returns id k, listActive holds exactly one record
\* with id k and listArchived holds none.
C3_AddedIsListed ==
    ret.op = "add" =>
        /\ Cardinality(WithId(ListActive, ret.id)) = 1
        /\ WithId(ListArchived, ret.id) = {}

\* C4 as claimed: a promote(k, technician, notes) that returns success leaves no
\* record k in listActive and exactly one in listArchived, which carries the
\* fields record k had in listActive, the repair date and the given technician
\* and notes.
C4_PromoteMoves ==
    [][ (ret'.op = "promote" /\ ret'.ok) =>
          LET k == ret'.arg
              before == get_all_detections(active)
              after == get_all_repairs(archive')
          IN  /\ WithId(get_all_detections(active'), k) = {}
              /\ Cardinality(WithId(after, k)) = 1
              /\ \A i \in WithId(after, k) : \E j \in WithId(before, k) :
                    /\ after[i].id = before[j].id
                    /\ after[i].timestamp = before[j].timestamp
                    /\ after[i].image_path = before[j].image_path
                    /\ after[i].lat = before[j].lat
                    /\ after[i].lng = before[j].lng
                    /\ after[i].type = before[j].type
                    /\ after[i].confidence = before[j].confidence
                    /\ after[i].repair_date = TimeStr(now')
                    /\ after[i].technician = ret'.technician
                    /\ after[i].notes = ret'.notes ]_vars

\* C5: a promote(k, ...) for an id k that listActive does not hold returns the
\* failure "Detection not found" and leaves both files as they were.
C5_PromoteNotFound ==
    [][ (ret'.op = "promote" /\ WithId(get_all_detections(active), ret'.arg) = {}) =>
          /\ ~ret'.ok
          /\ ret'.msg = "Detection not found"
          /\ active' = active
          /\ archive' = archive ]_vars

\* C5 witness: promote of an id already promoted has failed, with records stored.
C5_Witness ==
    /\ ret.op = "promote"
    /\ ~ret.ok
    /\ WithId(ListArchived, ret.arg) # {}
    /\ Len(active) >= 1

\* C7 as claimed: every add returns an id greater than the id every earlier add
\* returned.
C7_IdsMonotone ==
    \A i, j \in DOMAIN issued : i < j => issued[i] < issued[j]

\* The largest element of a non-empty set of integers.
SetMax(S) == CHOOSE m \in S : \A x \in S : x <= m

\* The ids stored in a sequence of rows.
IdSet(rows) == { RowIds(rows)[i] : i \in DOMAIN rows }

OnePlusMax(S) == IF S = {} THEN 1 ELSE 1 + SetMax(S)

\* C6: get_next_detection_id returns 1 + the largest id stored in the two files
\* together, 1 when both are empty, and add_detection gives its row that id: the
\* row it appended carries 1 + the largest id of all the other rows (11 when
\* the largest active id was 7 and the largest archived id 10).
C6_NextId ==
    /\ get_next_detection_id(active, archive)
          = OnePlusMax(IdSet(active) \cup IdSet(archive))
    /\ \A k \in IdSet(active) \cup IdSet(archive) :
          get_next_detection_id(active, archive) > k
    /\ ret.op = "add" =>
          /\ active # << >>
          /\ RowIds(active)[Len(active)] = ret.id
          /\ ret.id = OnePlusMax(IdSet(SubSeq(active, 1, Len(active) - 1))
                                   \cup IdSet(archive))

\* C6 witness: the largest active id was 7, the largest archived id 10, and add
\* returned 11.
C6_Witness ==
    /\ ret.op = "add"
    /\ ret.id = 11
    /\ Len(active) = 3
    /\ SetMax(IdSet(SubSeq(active, 1, 2))) = 7
    /\ Len(archive) = 2
    /\ SetMax(IdSet(archive)) = 10

\* No store call is in progress.
AllIdle == \A t \in Threads : pc[t] = "idle"

\* C2 as claimed: in every state, the states inside a promote and the state a
\* failed promote leaves included, every id add has returned is stored in
\* exactly one of detections.csv and repairs.csv.
C2_InExactlyOne ==
    \A i \in DOMAIN issued :
        (issued[i] \in IdSet(active)) # (issued[i] \in IdSet(archive))

\* C8 as claimed: add calls running concurrently never return the same id and
\* never leave two active rows with the same id.
C8_ConcurrentAddsDistinct ==
    /\ \A i, j \in DOMAIN issued : i # j => issued[i] # issued[j]
    /\ \A i, j \in DOMAIN active : i # j => RowIds(active)[i] # RowIds(active)[j]

\* C9 as claimed: once the concurrent calls have completed, no record written
\* by an add is lost: its id is stored in detections.csv, or in repairs.csv if
\* it was promoted.
C9_NoAddLost ==
    AllIdle => \A i \in DOMAIN issued :
                  issued[i] \in IdSet(active) \cup IdSet(archive)

\* The detections the cooldown rule persists: the first one, and every one
\* that comes more than the cooldown after the one persisted last.
RECURSIVE Persisted(_, _)
Persisted(times, kept) ==
    IF times = << >> THEN kept
    ELSE Persisted(Tail(times),
                   IF kept = << >> \/ Head(times) - kept[Len(kept)] > 5
                   THEN Append(kept, Head(times)) ELSE kept)

\* C10: in one streaming context a detection is persisted (row added to the
\* store, alert emitted) exactly when it comes more than 5 s after the last
\* persisted one, so any two persisted captures are more than 5 s apart.
C10_Cooldown ==
    /\ [i \in DOMAIN alerts |-> alerts[i].time] = Persisted(detected, << >>)
    /\ RowIds(active) = [i \in DOMAIN alerts |-> alerts[i].id]
    /\ \A i, j \in DOMAIN alerts : i < j => alerts[j].time - alerts[i].time > 5

\* C10 witness: of three detections, the second 2 s and the third 6 s after
\* the first, the first and the third were persisted.
C10_Witness ==
    /\ Len(detected) = 3
    /\ detected[2] - detected[1] = 2
    /\ detected[3] - detected[1] = 6
    /\ Len(alerts) = 2
    /\ alerts[1].time = detected[1]
    /\ alerts[2].time = detected[3]
    /\ Len(active) = 2

\* C11 as claimed: with several streams running at once, no two persisted
\* captures, of the same stream or of different ones, are 5 s or less apart.
C11_OnePerWindow ==
    \A i, j \in DOMAIN alerts :
        i # j => \/ alerts[j].time - alerts[i].time > 5
                 \/ alerts[i].time - alerts[j].time > 5


\* The distance between points i and j of a python list of points.
Dist(pts, i, j) ==
    calculate_distance(PyItem(pts, i).lat, PyItem(pts, i).lng,
                       PyItem(pts, j).lat, PyItem(pts, j).lng)

\* The sum of the distances of the consecutive legs of a visit order.
RECURSIVE LegSum(_, _)
LegSum(pts, path) ==
    IF Len(path) <= 1 THEN 0
    ELSE Dist(pts, path[1], path[2]) + LegSum(pts, Tail(path))

\* nearest_neighbor_path was called with a non-empty list and a start index
\* that is an index of the list.
ValidPlan ==
    /\ route # NotCalled
    /\ points # << >>
    /\ start_idx \in 0..(Len(points) - 1)

\* C12: for a non-empty list of points and a valid start index,
\* nearest_neighbor_path returns a path of the length of the list that begins
\* with the start index and holds every index of the list exactly once.
C12_Permutation ==
    ValidPlan =>
        /\ route.ok
        /\ Len(route.path) = Len(points)
        /\ route.path[1] = start_idx
        /\ \A i \in 0..(Len(points) - 1) :
              Cardinality({ k \in DOMAIN route.path : route.path[k] = i }) = 1

\* C12 witness: three points, two of them at the same place, visited from the
\* last index on.
C12_Witness ==
    /\ ValidPlan
    /\ Len(points) = 3
    /\ points[1] = points[3]
    /\ points[2] # points[1]
    /\ start_idx = 2
    /\ route.path = <<2, 0, 1>>

\* Three points on one parallel, one degree apart, in order.
Collinear ==
    /\ Len(points) = 3
    /\ \A i \in 1..3 : points[i].lat = points[1].lat /\ points[i].lng = i - 1

\* C13: the total distance returned is the sum of the distances of the
\* consecutive legs of the returned path, with no leg back to the start; an
\* empty list gives ([], 0), a single point ([0], 0), and three points on a
\* line one degree apart, from the first, give [0, 1, 2] and twice the
\* distance of the first two.
C13_TotalIsLegSum ==
    (route # NotCalled /\ route.ok) =>
        /\ route.total_distance = LegSum(points, route.path)
        /\ points = << >> => route.path = << >> /\ route.total_distance = 0
        /\ (Len(points) = 1 /\ start_idx = 0) =>
              route.path = <<0>> /\ route.total_distance = 0
        /\ (Collinear /\ start_idx = 0) =>
              /\ route.path = <<0, 1, 2>>
              /\ route.total_distance = 2 * Dist(points, 0, 1)

\* C13 witness: A(0,0), B(0,1), C(0,2) from A: [A, B, C] and 2 x 111.195 km.
C13_Witness ==
    /\ Collinear
    /\ points[1].lat = 0
    /\ start_idx = 0
    /\ route # NotCalled
    /\ route.path = <<0, 1, 2>>
    /\ route.total_distance = 222390

\* C14 as claimed: called with a start index that is no index of the list
\* (negative, or the length of the list or more), nearest_neighbor_path raises
\* and returns no path.
C14_InvalidStartFails ==
    (route # NotCalled /\ (start_idx < 0 \/ start_idx >= Len(points))) => ~route.ok

\* C18: every point of the returned path after the first is, among the points
\* not visited before it, one at the least distance from the point before it,
\* and of those at that distance the one with the lowest index; all points
\* are visited.  The path is thereby determined by the list and the start.
C18_Greedy ==
    ValidPlan =>
        /\ route.ok
        /\ Len(route.path) = Len(points)
        /\ \A k \in 2..Len(route.path) :
              LET chosen == route.path[k]
                  current == route.path[k - 1]
                  unvisited == (0..(Len(points) - 1))
                                  \ { route.path[i] : i \in 1..(k - 1) }
              IN  /\ chosen \in unvisited
                  /\ \A j \in unvisited :
                        /\ Dist(points, current, chosen) <= Dist(points, current, j)
                        /\ Dist(points, current, chosen) = Dist(points, current, j)
                              => chosen <= j

\* C18 witness: from B(0,1), A(0,0) at index 1 and C(0,2) at index 2 are
\* equally far; A, of the lower index, is visited first.
C18_Witness ==
    /\ ValidPlan
    /\ points = <<[lat |-> 0, lng |-> 1], [lat |-> 0, lng |-> 0], [lat |-> 0, lng |-> 2]>>
    /\ start_idx = 0
    /\ route.path = <<0, 1, 2>>
    /\ route.total_distance = 111195 + 222390


\* C15 as claimed: no failure on one frame or one box ends a stream: no
\* generate_frames is ever ended by an exception.
C15_StreamSurvives ==
    \A s \in Streams : spc[s] # "crashed"

\* C16 as claimed: while the latest location is unknown, no record the stream
\* persisted is stored with the coordinates (0, 0).
C16_UnknownNotZero ==
    latest_location = NoLocation =>
        \A i \in DOMAIN ListActive :
            ~(ListActive[i].lat = 0 /\ ListActive[i].lng = 0)

\* The number of listed active records whose confidence, in hundredths, is at
\* least lo and below hi.
InBand(lo, hi) ==
    Cardinality({ i \in DOMAIN ListActive :
                    lo <= ListActive[i].confidence /\ ListActive[i].confidence < hi })

\* C17 as claimed: the counts of get_detection_stats are the numbers of active
\* records with confidence >= 0.8 (high), 0.5 <= confidence < 0.8 (medium) and
\* confidence < 0.8 (low).
C17_LowBelowHigh ==
    ret.op = "stats" =>
        /\ ret.stats.high_severity = InBand(80, 101)
        /\ ret.stats.medium_severity = InBand(50, 80)
        /\ ret.stats.low_severity = InBand(0, 80)

\* C17, amended: the counts of get_detection_stats are the numbers of active
\* records with confidence >= 0.8 (high), 0.5 <= confidence < 0.8 (medium) and
\* confidence < 0.5 (low); every active record is in exactly one band.
C17_Bands ==
    ret.op = "stats" =>
        /\ ret.stats.high_severity = InBand(80, 101)
        /\ ret.stats.medium_severity = InBand(50, 80)
        /\ ret.stats.low_severity = InBand(0, 50)
        /\ ret.stats.high_severity + ret.stats.medium_severity
              + ret.stats.low_severity = Len(ListActive)

\* C17 witness: stats of three records, one in every band (0.3, 0.5, 0.8).
C17_Witness ==
    /\ ret.op = "stats"
    /\ Len(active) = 3
    /\ { active[i].Confidence : i \in 1..3 } = {"0.3", "0.5", "0.8"}
    /\ ret.stats.high_severity = 1
    /\ ret.stats.medium_severity = 1
    /\ ret.stats.low_severity = 1

\* C19 as claimed: the frame counter counts the frames read, and the detector
\* is invoked exactly on the frames whose count is a multiple of 3.
C19_EveryThird ==
    \A s \in Streams :
        /\ Len(frames[s]) = frame_count[s]
        /\ \A i \in DOMAIN frames[s] : frames[s][i] <=> (i % 3 = 0)

\* C19, amended: the frame counter counts the frames read, and the detector is
\* invoked exactly on the frames whose count is a multiple of 2: every 2nd
\* frame is inferred, the frame between yields no detection and no capture.
C19_EverySecond ==
    \A s \in Streams :
        /\ Len(frames[s]) = frame_count[s]
        /\ \A i \in DOMAIN frames[s] : frames[s][i] <=> (i % 2 = 0)
        /\ boxes[s] # << >> => frame_count[s] % 2 = 0

\* C19 witness: four frames read, the 2nd and the 4th inferred, the 4th with a
\* box to process.
C19_Witness ==
    /\ frame_count[1] = 4
    /\ frames[1] = <<FALSE, TRUE, FALSE, TRUE>>
    /\ boxes[1] # << >>
    /\ Len(alerts) >= 1

\* C20 as claimed: a capture is given the coordinates of a GPS fix only if the
\* fix was stored within the last 120 s.
C20_FreshGpsOnly ==
    [][ (Len(active') = Len(active) + 1 /\ latest_location.source = "gps") =>
          now - TimeOf(latest_location.last_update) <= 120 ]_vars


\* The coordinates of the updates of latest_location, its initial value
\* included, as a stream passes them to add_detection.
UpdatePairs ==
    { <<OrZeroStr(u.latitude), OrZeroStr(u.longitude)>> :
        u \in {NoLocation, GpsLocation, IpLocationAt(ClockStart)} }

\* C21 as claimed: under every interleaving of a stream with handle_location
\* and update_location_periodically, the latitude and longitude stored with a
\* detection are those of one single update of latest_location.
C21_NoTornPair ==
    \A i \in DOMAIN active : <<active[i].Latitude, active[i].Longitude>> \in UpdatePairs


\* The texts of the model that denote a number, and the number in hundredths.
NumberTexts == { p[1] : p \in FloatTable } \cup {"0"}
NumberOf(s) == IF s = "0" THEN 0 ELSE (CHOOSE p \in FloatTable : p[1] = s)[2]

\* A cell that is blank or missing from its row.
Blank(s) == s \in {"", Missing}

\* A row with a field that cannot be parsed: an ID that is no integer, or a
\* latitude, longitude or confidence that is neither blank nor a number.
Unparsable(row) ==
    \/ row.ID \notin { ToString(n) : n \in 0..IdRange }
    \/ \E s \in {row.Latitude, row.Longitude, row.Confidence} :
          ~Blank(s) /\ s \notin NumberTexts
Parsable(row) == ~Unparsable(row)

\* The number returned for a numeric cell: 0 for a blank or missing one.
Returned(s) == IF Blank(s) THEN 0 ELSE NumberOf(s)

\* A listing returns exactly the parsable rows of the file, in stored order,
\* each with its id and with 0 for a blank latitude, longitude or confidence.
Lists(listing, rows) ==
    LET kept == SelectSeq(rows, Parsable)
    IN  /\ Len(listing) = Len(kept)
        /\ \A i \in DOMAIN kept :
              /\ ToString(listing[i].id) = kept[i].ID
              /\ listing[i].lat = Returned(kept[i].Latitude)
              /\ listing[i].lng = Returned(kept[i].Longitude)
              /\ listing[i].confidence = Returned(kept[i].Confidence)

\* C22: get_all_detections and get_all_repairs skip a row with an unparsable
\* field and return every other row of the file, in stored order; a row whose
\* latitude, longitude or confidence is blank or missing is returned with 0
\* in that field.
C22_ParseTolerant ==
    /\ ret.op = "get_all_detections" => Lists(ret.listing, active)
    /\ ret.op = "get_all_repairs" => Lists(ret.listing, archive)

\* C22 witness: of a blank row, a row with an unparsable latitude and a short
\* row, the first and the third are returned, with 0 for their blank cells.
C22_Witness ==
    /\ ret.op = "get_all_detections"
    /\ Len(active) = 3
    /\ active[1].Latitude = "" /\ active[1].Confidence = ""
    /\ active[2].Latitude = "N/A"
    /\ active[3].Confidence = Missing
    /\ Len(ret.listing) = 2
    /\ ret.listing[1].id = 1 /\ ret.listing[1].lat = 0 /\ ret.listing[1].confidence = 0
    /\ ret.listing[2].id = 3 /\ ret.listing[2].lng = 0 /\ ret.listing[2].lat = 2380

\* The rows of a file other than those of record k, as stored.
OtherRows(rows, k) ==
    LET Other(row) == row.ID # ToString(k)
    IN  SelectSeq(rows, Other)

\* C23 as claimed: a promote(k, ...) that returns success leaves every row of
\* detections.csv other than record k stored with the same fields and in the
\* same order, a row that get_all_detections skips included, and leaves
\* every row that repairs.csv held unchanged.
C23_PromoteFrame ==
    [][ (ret'.op = "promote" /\ ret'.ok) =>
          /\ OtherRows(active', ret'.arg) = OtherRows(active, ret'.arg)
          /\ Len(archive') >= Len(archive)
          /\ SubSeq(archive', 1, Len(archive)) = archive ]_vars

\* What /api/stats reports for the store.
Reported == get_detection_stats(active, archive)

\* C24 as claimed: from the empty store, after every add or promote the
\* total_detections and fixed_count that stats reports add up to the number
\* of add calls that returned, and fixed_count has grown by one with each
\* promote that returned success and with nothing else.
C24_Conservation ==
    [][ /\ Reported'.total_detections + Reported'.fixed_count = Len(issued')
        /\ Reported'.fixed_count =
              Reported.fixed_count + (IF ret'.op = "promote" /\ ret'.ok THEN 1 ELSE 0)
      ]_vars

====
